---- MODULE Spec2Model ----
(***************************************************************************)
(* Model of the 3pio pytest adapter (internal/adapters/pytest_adapter.py). *)
(*                                                                         *)
(* One coordinator process and NumWorkers xdist worker processes each load *)
(* their own copy of the plugin (module globals _reporter and _is_worker,  *)
(* one ThreepioReporter per process) and append to one shared IPC file.    *)
(* Each pytest hook is one action; the host may invoke the hooks in any    *)
(* order.  Strings that the code splits or joins (node ids, group ids) are *)
(* sequences of one-character strings, so that split('::') and ':'.join    *)
(* are computed and not assumed.                                           *)
(***************************************************************************)
EXTENDS Integers, Sequences, FiniteSets, TLC

VARIABLES
    stream,      \* the IPC file: the sequence of event lines appended so far
    sinkOk,      \* whether open(ipc_path, 'a') / write currently succeeds
    _is_worker,  \* per process: module global _is_worker
    _reporter,   \* per process: module global _reporter, None or <<reporter>>
    phase,       \* per process: the last lifecycle hook the host delivered
    log,         \* per process: the events this process appended to the file
    logged_errors  \* per process: the ERROR lines send_event gave to _log_error

vars == <<stream, sinkOk, _is_worker, _reporter, phase, log, logged_errors>>

----------------------------------------------------------------------------
(* Bounds of the model. *)

NumWorkers == 1
MaxStream == 6
MaxXdistStream == 4
MaxNodeIdStream == 10
MaxFaultyStream == 2
MaxLoggedErrors == 3
MaxExistingStream == 6
MaxScenarioStream == 8
MaxCollectStream == 5

----------------------------------------------------------------------------
(* Processes and their environment. *)

Workers == 1..NumWorkers
Procs == {0} \cup Workers
IsCoordinator(p) == p = 0
Coordinators == { p \in Procs : IsCoordinator(p) }

Unset == "<unset>"

\* os.environ.get('PYTEST_XDIST_WORKER'): xdist sets it in worker processes only
environ_PYTEST_XDIST_WORKER(p) == IF IsCoordinator(p) THEN Unset ELSE "gw"

is_xdist_worker_always_false(p) == FALSE

is_xdist_worker(p) == environ_PYTEST_XDIST_WORKER(p) # Unset

----------------------------------------------------------------------------
(* Strings as sequences of characters. *)

Sep == <<":", ":">>

\* f::t, f::A::t and f::B::t: a bare function and two methods of the same
\* name in two classes of one file
NodeIds ==
    { <<"f">> \o Sep \o <<"t">>,
      <<"f">> \o Sep \o <<"A">> \o Sep \o <<"t">>,
      <<"f">> \o Sep \o <<"B">> \o Sep \o <<"t">> }

\* str.split('::'): leftmost, non-overlapping separators
RECURSIVE SplitFrom(_, _, _, _)
SplitFrom(s, i, cur, acc) ==
    IF i > Len(s) THEN Append(acc, cur)
    ELSE IF i < Len(s) /\ s[i] = ":" /\ s[i + 1] = ":"
         THEN SplitFrom(s, i + 2, <<>>, Append(acc, cur))
         ELSE SplitFrom(s, i + 1, Append(cur, s[i]), acc)

Split(s) == SplitFrom(s, 1, <<>>, <<>>)

\* ':'.join(hierarchy)
RECURSIVE Join(_)
Join(h) ==
    IF Len(h) = 0 THEN <<>>
    ELSE IF Len(h) = 1 THEN h[1]
    ELSE h[1] \o <<":">> \o Join(Tail(h))

get_group_id(hierarchy) == Join(hierarchy)

parse_test_hierarchy_class_only(nodeid) ==
    LET parts == Split(nodeid)
        n == Len(parts)
    IN  [file_path |-> parts[1],
         suite_chain |-> IF n > 2 THEN <<parts[2]>> ELSE <<>>,
         test_name |-> parts[n]]

parse_test_hierarchy_needs_two(nodeid) ==
    LET parts == Split(nodeid)
        n == Len(parts)
    IN  [file_path |-> parts[1],
         suite_chain |-> IF n > 2 THEN SubSeq(parts, 2, n - 1) ELSE <<>>,
         test_name |-> IF n >= 2 THEN parts[n] ELSE <<>>]

parse_test_hierarchy(nodeid) ==
    LET parts == Split(nodeid)
        n == Len(parts)
    IN  IF n = 2 THEN
            [file_path |-> parts[1], suite_chain |-> <<>>, test_name |-> parts[2]]
        ELSE IF n = 3 THEN
            [file_path |-> parts[1], suite_chain |-> <<parts[2]>>, test_name |-> parts[3]]
        ELSE
            [file_path |-> parts[1],
             suite_chain |-> IF n > 2 THEN SubSeq(parts, 2, n - 1) ELSE <<>>,
             test_name |-> parts[n]]

build_hierarchy_from_file(file_path, suite_chain) == <<file_path>> \o suite_chain

Files == { parse_test_hierarchy(n).file_path : n \in NodeIds }

----------------------------------------------------------------------------
(* Host inputs. *)

Whens == {"setup", "call", "teardown"}
Outcomes == {"passed", "failed", "skipped"}

NoAttr == "<no attribute>"
XfailMarks == {NoAttr, "expected to fail"}

NoRepr == [kind |-> "none", text |-> <<>>]
FailRepr == [kind |-> "str", text |-> <<"assert 1 == 2">>]
SkipRepr == [kind |-> "tuple", text |-> <<"Skipped: ", "not today">>]

\* longrepr of a report with the given outcome: None for a pass, the failure
\* representation for a failure, the (file, line, reason) tuple for a skip
LongReprOf(outcome) ==
    IF outcome = "failed" THEN FailRepr
    ELSE IF outcome = "skipped" THEN SkipRepr
    ELSE NoRepr

Durations == {2}

\* TestReport objects handed to pytest_runtest_logreport.  pytest sets
\* wasxfail on passed (unexpected pass) and skipped (expected failure) reports.
Reports ==
    { r \in [when : Whens, outcome : Outcomes, wasxfail : XfailMarks,
             nodeid : NodeIds, longrepr : {NoRepr, FailRepr, SkipRepr},
             duration : Durations] :
        /\ r.longrepr = LongReprOf(r.outcome)
        /\ r.outcome = "failed" => r.wasxfail = NoAttr }

\* CollectReport objects handed to pytest_collectreport
CollectReports == [failed : BOOLEAN, nodeid : {<<"f">>}, longrepr : {FailRepr}]

CollectedCounts == {2}

\* Node ids by their segments: the empty identifier, one to five segments,
\* and segments that contain a single colon (as a parametrized id or a
\* file name may)
IdSegments ==
    { << <<>> >>,
      << <<"f">> >>,
      << <<"f">>, <<"t">> >>,
      << <<"f">>, <<"a">>, <<"t">> >>,
      << <<"f">>, <<"a", ":", "b">>, <<"t">> >>,
      << <<"f", ":", "a">>, <<"K">>, <<"t">> >>,
      << <<"f">>, <<"a">>, <<"b">>, <<"t">> >>,
      << <<"f">>, <<"a">>, <<"b">>, <<"c">>, <<"t">> >> }

\* the node id pytest builds from its segments: '::'.join(segments)
RECURSIVE MakeId(_)
MakeId(segs) ==
    IF Len(segs) = 0 THEN <<>>
    ELSE IF Len(segs) = 1 THEN segs[1]
    ELSE segs[1] \o Sep \o MakeId(Tail(segs))

ParseIds == { MakeId(segs) : segs \in IdSegments }

\* passed call-phase reports of the tests with these node ids
NodeIdReports ==
    [when : {"call"}, outcome : {"passed"}, wasxfail : {NoAttr},
     nodeid : ParseIds, longrepr : {NoRepr}, duration : Durations]

----------------------------------------------------------------------------
(* ThreepioReporter. *)

None == <<>>
Some(r) == <<r>>

NewReporter ==
    [test_files |-> {},
     test_results |-> <<>>,
     discovered_groups |-> {},
     group_starts |-> {},
     file_groups |-> {},
     processed_skips |-> {}]

\* A handler's working state: the reporter, whether writes succeed, the
\* lines it has appended so far, and the number of failed writes it has
\* handed to _log_error.
Ctx(rep, ok) == [rep |-> rep, ok |-> ok, out |-> <<>>, err |-> 0]

Event(event_type, payload) == [eventType |-> event_type, payload |-> payload]

send_event_unlogged(c, event_type, payload) ==
    IF c.ok THEN [c EXCEPT !.out = Append(@, Event(event_type, payload))]
    ELSE c

\* the write raises when the sink is down: the except clause logs the error
send_event(c, event_type, payload) ==
    IF c.ok THEN [c EXCEPT !.out = Append(@, Event(event_type, payload))]
    ELSE [c EXCEPT !.err = @ + 1]

discover_groups_file_only(file_path, suite_chain) ==
    << [hierarchy |-> <<file_path>>, name |-> file_path, parent_names |-> <<>>] >>

discover_groups(file_path, suite_chain) ==
    << [hierarchy |-> <<file_path>>, name |-> file_path, parent_names |-> <<>>] >>
    \o [i \in 1..Len(suite_chain) |->
          [hierarchy |-> <<file_path>> \o SubSeq(suite_chain, 1, i),
           name |-> suite_chain[i],
           parent_names |-> <<file_path>> \o SubSeq(suite_chain, 1, i - 1)]]

DiscoverOne_no_add(c, group) ==
    send_event(c, "testGroupDiscovered",
               [groupName |-> group.name, parentNames |-> group.parent_names])

DiscoverOne_add_on_success(c, group) ==
    LET group_id == get_group_id(group.hierarchy)
    IN  IF group_id \notin c.rep.discovered_groups
        THEN send_event(IF c.ok
                        THEN [c EXCEPT !.rep.discovered_groups = @ \cup {group_id}]
                        ELSE c,
                        "testGroupDiscovered",
                        [groupName |-> group.name, parentNames |-> group.parent_names])
        ELSE c

\* body of the loop of ensure_groups_discovered
DiscoverOne(c, group) ==
    LET group_id == get_group_id(group.hierarchy)
    IN  IF group_id \notin c.rep.discovered_groups
        THEN send_event([c EXCEPT !.rep.discovered_groups = @ \cup {group_id}],
                        "testGroupDiscovered",
                        [groupName |-> group.name, parentNames |-> group.parent_names])
        ELSE c

RECURSIVE DiscoverLoop(_, _, _)
DiscoverLoop(c, groups, i) ==
    IF i > Len(groups) THEN c
    ELSE DiscoverLoop(DiscoverOne(c, groups[i]), groups, i + 1)

ensure_groups_discovered(c, file_path, suite_chain) ==
    DiscoverLoop(c, discover_groups(file_path, suite_chain), 1)

ensure_group_started(c, hierarchy) ==
    LET group_id == get_group_id(hierarchy)
    IN  IF group_id \notin c.rep.group_starts
        THEN LET c1 == [c EXCEPT !.rep.group_starts = @ \cup {group_id}]
                 groups == discover_groups(Head(hierarchy), Tail(hierarchy))
                 hits == { i \in 1..Len(groups) :
                             get_group_id(groups[i].hierarchy) = group_id }
             IN  IF hits = {} THEN c1
                 ELSE LET i == CHOOSE k \in hits : \A m \in hits : k <= m
                      IN  send_event(c1, "testGroupStart",
                                     [groupName |-> groups[i].name,
                                      parentNames |-> groups[i].parent_names])
        ELSE c

\* for i in range(len(suite_chain) + 1): ensure_group_started([file_path] + suite_chain[:i])
RECURSIVE StartLoop(_, _, _, _)
StartLoop(c, file_path, suite_chain, i) ==
    IF i > Len(suite_chain) THEN c
    ELSE StartLoop(ensure_group_started(c, <<file_path>> \o SubSeq(suite_chain, 1, i)),
                   file_path, suite_chain, i + 1)

----------------------------------------------------------------------------
(* Per-file counters (test_results[file_path]). *)

\* dict written by pytest_runtest_protocol
CountsAtStart == [passed |-> 0, failed |-> 0, skipped |-> 0]

\* dict written by pytest_runtest_logreport
CountsAtReport == [passed |-> 0, failed |-> 0, skipped |-> 0, xfailed |-> 0, xpassed |-> 0]

\* results.get(key, 0)
Get(results, key) == IF key \in DOMAIN results THEN results[key] ELSE 0

\* results[key] = results.get(key, 0) + 1
Incr(results, key) ==
    IF key \in DOMAIN results THEN [results EXCEPT ![key] = @ + 1]
    ELSE (key :> 1) @@ results

\* _reporter.test_results.get(file_path, {})
ResultsOf(rep, file_path) ==
    IF file_path \in DOMAIN rep.test_results THEN rep.test_results[file_path] ELSE <<>>

SetResults(rep, file_path, results) ==
    IF file_path \in DOMAIN rep.test_results
    THEN [rep EXCEPT !.test_results[file_path] = results]
    ELSE [rep EXCEPT !.test_results = (file_path :> results) @@ @]

----------------------------------------------------------------------------
(* pytest_runtest_logreport. *)

has_xfail_never(report) == FALSE

has_xfail(report) == report.wasxfail # NoAttr
passed(report) == report.outcome = "passed"
failed(report) == report.outcome = "failed"
skipped(report) == report.outcome = "skipped"

\* truthiness of report.longrepr
Truthy(longrepr) == longrepr.kind # "none" /\ longrepr.text # <<>>

_extract_skip_reason(report) ==
    LET l == report.longrepr
    IN  IF l.kind = "tuple" /\ Len(l.text) >= 1
        THEN IF Head(l.text) = "Skipped: " THEN Tail(l.text) ELSE l.text
        ELSE IF l.kind = "str" THEN l.text
        ELSE <<"Test skipped">>

IsPlainSkip_any_phase(report) == skipped(report) /\ ~has_xfail(report)

\* the branch that handles a plain skip in setup or call
IsPlainSkip(report) ==
    skipped(report) /\ report.when \in {"setup", "call"} /\ ~has_xfail(report)

SkipKey(file_path, suite_chain, test_name) == <<file_path, test_name>>

CallStatus_swapped(report) ==
    IF has_xfail(report) THEN (IF passed(report) THEN "XPASS" ELSE "XFAIL")
    ELSE IF passed(report) THEN "FAIL"
    ELSE IF failed(report) THEN "PASS"
    ELSE IF skipped(report) THEN "SKIP"
    ELSE "UNKNOWN"

CallStatus_xfail_needs_failed(report) ==
    IF has_xfail(report)
    THEN (IF passed(report) THEN "XPASS"
          ELSE IF failed(report) THEN "XFAIL" ELSE "UNKNOWN")
    ELSE IF passed(report) THEN "PASS"
    ELSE IF failed(report) THEN "FAIL"
    ELSE IF skipped(report) THEN "SKIP"
    ELSE "UNKNOWN"

\* "Determine test status"
CallStatus(report) ==
    IF has_xfail(report) THEN (IF passed(report) THEN "XPASS" ELSE "XFAIL")
    ELSE IF passed(report) THEN "PASS"
    ELSE IF failed(report) THEN "FAIL"
    ELSE IF skipped(report) THEN "SKIP"
    ELSE "UNKNOWN"

CounterOf_xpass_failed(status) ==
    CASE status = "PASS" -> "passed"
      [] status = "FAIL" -> "failed"
      [] status = "SKIP" -> "skipped"
      [] status = "XFAIL" -> "xfailed"
      [] status = "XPASS" -> "failed"

CounterOf(status) ==
    CASE status = "PASS" -> "passed"
      [] status = "FAIL" -> "failed"
      [] status = "SKIP" -> "skipped"
      [] status = "XFAIL" -> "xfailed"
      [] status = "XPASS" -> "xpassed"

\* the counter update made in the branch that sets the status
CountStatus(results, status) ==
    IF status = "UNKNOWN" THEN results ELSE Incr(results, CounterOf(status))

CasePayload_error_always(report, parent_names, test_name, status) ==
    [testName |-> test_name,
     parentNames |-> parent_names,
     status |-> status,
     duration |-> report.duration * 1000,
     error |-> report.longrepr.text]

\* payload of the testCase event of the call phase
CasePayload(report, parent_names, test_name, status) ==
    LET base == [testName |-> test_name,
                 parentNames |-> parent_names,
                 status |-> status,
                 duration |-> report.duration * 1000]
        with_xfail == IF has_xfail(report)
                      THEN ("xfailReason" :> report.wasxfail) @@ base
                      ELSE base
    IN  IF failed(report) /\ Truthy(report.longrepr)
        THEN ("error" :> report.longrepr.text) @@ with_xfail
        ELSE with_xfail

SkipPayload_no_reason(report, parent_names, test_name) ==
    [testName |-> test_name,
     parentNames |-> parent_names,
     status |-> "SKIP",
     skipPhase |-> report.when]

SkipPayload(report, parent_names, test_name) ==
    [testName |-> test_name,
     parentNames |-> parent_names,
     status |-> "SKIP",
     skipReason |-> _extract_skip_reason(report),
     skipPhase |-> report.when]

\* discover and start every ancestor group, then send the testCase event
EmitCase(c, h, payload) ==
    LET c1 == ensure_groups_discovered(c, h.file_path, h.suite_chain)
        c2 == StartLoop(c1, h.file_path, h.suite_chain, 0)
    IN  send_event(c2, "testCase", payload)

\* the handler on an active reporter, as a function of its working state
LogReport(c, report) ==
    LET h == parse_test_hierarchy(report.nodeid)
        file_path == h.file_path
        c0 == IF file_path \notin DOMAIN c.rep.test_results
              THEN [c EXCEPT !.rep = SetResults(@, file_path, CountsAtReport)]
              ELSE c
        parent_names == build_hierarchy_from_file(file_path, h.suite_chain)
    IN  IF IsPlainSkip(report) THEN
            LET skip_key == SkipKey(file_path, h.suite_chain, h.test_name)
            IN  IF skip_key \in c0.rep.processed_skips THEN c0
                ELSE LET c1 == [c0 EXCEPT
                                  !.rep.processed_skips = @ \cup {skip_key},
                                  !.rep.test_results[file_path] = Incr(@, "skipped")]
                     IN  EmitCase(c1, h, SkipPayload(report, parent_names, h.test_name))
        ELSE IF report.when # "call" THEN c0
        ELSE
            LET status == CallStatus(report)
                c1 == [c0 EXCEPT !.rep.test_results[file_path] = CountStatus(@, status)]
            IN  EmitCase(c1, h, CasePayload(report, parent_names, h.test_name, status))

----------------------------------------------------------------------------
(* pytest_runtest_protocol. *)

\* get_file_path(item): the paths the host's items resolve to, the file of
\* the node ids and a second file
ItemPaths == Files \cup {<<"g">>}

RunTestProtocol_start_only(c, file_path) ==
    IF file_path \notin c.rep.test_files THEN
        LET c1 == [c EXCEPT !.rep = SetResults([@ EXCEPT !.test_files = @ \cup {file_path}],
                                               file_path, CountsAtStart)]
            c3 == ensure_group_started(c1, <<file_path>>)
        IN  [c3 EXCEPT !.rep.file_groups = @ \cup {file_path}]
    ELSE c

RunTestProtocol_no_start(c, file_path) ==
    IF file_path \notin c.rep.test_files THEN
        LET c1 == [c EXCEPT !.rep = SetResults([@ EXCEPT !.test_files = @ \cup {file_path}],
                                               file_path, CountsAtStart)]
            c2 == ensure_groups_discovered(c1, file_path, <<>>)
        IN  [c2 EXCEPT !.rep.file_groups = @ \cup {file_path}]
    ELSE c

RunTestProtocol(c, file_path) ==
    IF file_path \notin c.rep.test_files THEN
        LET c1 == [c EXCEPT !.rep = SetResults([@ EXCEPT !.test_files = @ \cup {file_path}],
                                               file_path, CountsAtStart)]
            c2 == ensure_groups_discovered(c1, file_path, <<>>)
            c3 == ensure_group_started(c2, <<file_path>>)
        IN  [c3 EXCEPT !.rep.file_groups = @ \cup {file_path}]
    ELSE c

----------------------------------------------------------------------------
(* pytest_sessionfinish. *)

GroupStatus_passed_first(results) ==
    IF Get(results, "passed") > 0 THEN "PASS"
    ELSE IF Get(results, "failed") > 0 THEN "FAIL"
    ELSE IF Get(results, "skipped") > 0 THEN "SKIP"
    ELSE "UNKNOWN"

\* "Determine overall file status"
GroupStatus(results) ==
    IF Get(results, "failed") > 0 THEN "FAIL"
    ELSE IF Get(results, "passed") > 0 THEN "PASS"
    ELSE IF Get(results, "skipped") > 0 THEN "SKIP"
    ELSE "UNKNOWN"

Totals(results) ==
    [total |-> Get(results, "passed") + Get(results, "failed") + Get(results, "skipped")
               + Get(results, "xfailed") + Get(results, "xpassed"),
     passed |-> Get(results, "passed"),
     failed |-> Get(results, "failed"),
     skipped |-> Get(results, "skipped"),
     xfailed |-> Get(results, "xfailed"),
     xpassed |-> Get(results, "xpassed")]

\* body of the loop over test_files
FinishFile(c, file_path) ==
    LET results == ResultsOf(c.rep, file_path)
    IN  send_event(c, "testGroupResult",
                   [groupName |-> file_path,
                    parentNames |-> <<>>,
                    status |-> GroupStatus(results),
                    duration |-> IF file_path \in c.rep.file_groups
                                 THEN "elapsed" ELSE "null",
                    totals |-> Totals(results)])

\* the orders in which "for file_path in test_files" may visit a set
Orders(S) ==
    { o \in [1..Cardinality(S) -> S] : \A x \in S : \E i \in DOMAIN o : o[i] = x }

RECURSIVE FinishLoop(_, _, _)
FinishLoop(c, order, i) ==
    IF i > Len(order) THEN c
    ELSE FinishLoop(FinishFile(c, order[i]), order, i + 1)

SessionFinish(c, order) == FinishLoop(c, order, 1)

----------------------------------------------------------------------------
(* pytest_collectreport, pytest_collection_finish. *)

CollectReport_any_report(c, report) ==
    send_event(c, "collectionError",
               [filePath |-> IF report.nodeid # <<>> THEN report.nodeid
                             ELSE <<"__collection__">>,
                error |-> report.longrepr.text,
                phase |-> "collection"])

CollectReport(c, report) ==
    IF report.failed
    THEN send_event(c, "collectionError",
                    [filePath |-> IF report.nodeid # <<>> THEN report.nodeid
                                  ELSE <<"__collection__">>,
                     error |-> report.longrepr.text,
                     phase |-> "collection"])
    ELSE c

CollectionFinish(c, collected) ==
    send_event(c, "collectionFinish", [collected |-> collected])

----------------------------------------------------------------------------------------------------------------------------------------
(* The hooks as actions of process p.  limit bounds the length of the      *)
(* stream: a hook that would write past it is not delivered.               *)

Active(p) == ~_is_worker[p] /\ _reporter[p] # None

\* the working state of process p's reporter at the start of a hook
Cur(p) == Ctx(_reporter[p][1], sinkOk)

Commit_truncating(p, c, limit) ==
    /\ Len(stream) + Len(c.out) <= limit
    /\ logged_errors[p] + c.err <= MaxLoggedErrors
    /\ _reporter' = [_reporter EXCEPT ![p] = Some(c.rep)]
    /\ stream' = IF c.out = <<>> THEN stream ELSE <<c.out[Len(c.out)]>>
    /\ log' = [log EXCEPT ![p] = @ \o c.out]
    /\ logged_errors' = [logged_errors EXCEPT ![p] = @ + c.err]

\* install a handler's result: the reporter's new state and the appended lines
Commit(p, c, limit) ==
    /\ Len(stream) + Len(c.out) <= limit
    /\ logged_errors[p] + c.err <= MaxLoggedErrors
    /\ _reporter' = [_reporter EXCEPT ![p] = Some(c.rep)]
    /\ stream' = stream \o c.out
    /\ log' = [log EXCEPT ![p] = @ \o c.out]
    /\ logged_errors' = [logged_errors EXCEPT ![p] = @ + c.err]

pytest_configure_ignoring_worker(p, limit) ==
    /\ phase[p] = "init"
    /\ phase' = [phase EXCEPT ![p] = "configured"]
    /\ _is_worker' = [_is_worker EXCEPT ![p] = FALSE]
    /\ Commit(p, send_event(Ctx(NewReporter, sinkOk), "collectionStart",
                            [phase |-> "collection"]), limit)
    /\ UNCHANGED sinkOk

pytest_configure_silent(p, limit) ==
    /\ phase[p] = "init"
    /\ phase' = [phase EXCEPT ![p] = "configured"]
    /\ _is_worker' = [_is_worker EXCEPT ![p] = is_xdist_worker(p)]
    /\ IF is_xdist_worker(p)
       THEN UNCHANGED <<_reporter, stream, log, logged_errors>>
       ELSE Commit(p, Ctx(NewReporter, sinkOk), limit)
    /\ UNCHANGED sinkOk

pytest_configure(p, limit) ==
    /\ phase[p] = "init"
    /\ phase' = [phase EXCEPT ![p] = "configured"]
    /\ _is_worker' = [_is_worker EXCEPT ![p] = is_xdist_worker(p)]
    /\ IF is_xdist_worker(p)
       THEN UNCHANGED <<_reporter, stream, log, logged_errors>>
       ELSE Commit(p, send_event(Ctx(NewReporter, sinkOk), "collectionStart",
                                 [phase |-> "collection"]), limit)
    /\ UNCHANGED sinkOk

pytest_collectreport(p, report, limit) ==
    /\ IF Active(p) THEN Commit(p, CollectReport(Cur(p), report), limit)
       ELSE UNCHANGED <<_reporter, stream, log, logged_errors>>
    /\ UNCHANGED <<sinkOk, _is_worker, phase>>

pytest_collection_finish(p, collected, limit) ==
    /\ IF Active(p) THEN Commit(p, CollectionFinish(Cur(p), collected), limit)
       ELSE UNCHANGED <<_reporter, stream, log, logged_errors>>
    /\ UNCHANGED <<sinkOk, _is_worker, phase>>

pytest_runtest_protocol(p, file_path, limit) ==
    /\ IF Active(p) THEN Commit(p, RunTestProtocol(Cur(p), file_path), limit)
       ELSE UNCHANGED <<_reporter, stream, log, logged_errors>>
    /\ UNCHANGED <<sinkOk, _is_worker, phase>>

pytest_runtest_logreport(p, report, limit) ==
    /\ IF Active(p) THEN Commit(p, LogReport(Cur(p), report), limit)
       ELSE UNCHANGED <<_reporter, stream, log, logged_errors>>
    /\ UNCHANGED <<sinkOk, _is_worker, phase>>

pytest_sessionfinish(p, limit) ==
    /\ phase' = [phase EXCEPT ![p] = IF @ \in {"configured", "finished"}
                                     THEN "finished" ELSE @]
    /\ IF Active(p)
       THEN \E order \in Orders(_reporter[p][1].test_files) :
                Commit(p, SessionFinish(Cur(p), order), limit)
       ELSE UNCHANGED <<_reporter, stream, log, logged_errors>>
    /\ UNCHANGED <<sinkOk, _is_worker>>

pytest_unconfigure_keeping_reporter(p) ==
    /\ phase[p] \in {"configured", "finished"}
    /\ phase' = [phase EXCEPT ![p] = "unconfigured"]
    /\ UNCHANGED <<stream, sinkOk, _is_worker, _reporter, log, logged_errors>>

pytest_unconfigure(p) ==
    /\ phase[p] \in {"configured", "finished"}
    /\ phase' = [phase EXCEPT ![p] = "unconfigured"]
    /\ _reporter' = IF _is_worker[p] THEN _reporter
                    ELSE [_reporter EXCEPT ![p] = None]
    /\ UNCHANGED <<stream, sinkOk, _is_worker, log, logged_errors>>

\* open(ipc_path, 'a') or the write starts to raise (the file's directory is
\* removed, the disk fills up)
sink_fails ==
    /\ sinkOk
    /\ sinkOk' = FALSE
    /\ UNCHANGED <<stream, _is_worker, _reporter, phase, log, logged_errors>>

\* writes succeed again
sink_recovers ==
    /\ ~sinkOk
    /\ sinkOk' = TRUE
    /\ UNCHANGED <<stream, _is_worker, _reporter, phase, log, logged_errors>>

----------------------------------------------------------------------------
(* Specifications. *)

Init ==
    /\ stream = <<>>
    /\ sinkOk = TRUE
    /\ _is_worker = [p \in Procs |-> FALSE]
    /\ _reporter = [p \in Procs |-> None]
    /\ phase = [p \in Procs |-> "init"]
    /\ log = [p \in Procs |-> <<>>]
    /\ logged_errors = [p \in Procs |-> 0]

\* One session of the process without the worker marker.
Next ==
    \E p \in Coordinators :
        \/ pytest_configure(p, MaxStream)
        \/ \E report \in CollectReports : pytest_collectreport(p, report, MaxStream)
        \/ \E collected \in CollectedCounts :
               pytest_collection_finish(p, collected, MaxStream)
        \/ \E file_path \in ItemPaths : pytest_runtest_protocol(p, file_path, MaxStream)
        \/ \E report \in Reports : pytest_runtest_logreport(p, report, MaxStream)
        \/ pytest_sessionfinish(p, MaxStream)
        \/ pytest_unconfigure(p)

Spec == Init /\ [][Next]_vars

\* The coordinator and the xdist workers, each running its own session, in
\* any interleaving against the same IPC file.
NextXdist ==
    \E p \in Procs :
        \/ pytest_configure(p, MaxXdistStream)
        \/ \E report \in CollectReports : pytest_collectreport(p, report, MaxXdistStream)
        \/ \E collected \in CollectedCounts :
               pytest_collection_finish(p, collected, MaxXdistStream)
        \/ \E file_path \in ItemPaths : pytest_runtest_protocol(p, file_path, MaxXdistStream)
        \/ \E report \in Reports : pytest_runtest_logreport(p, report, MaxXdistStream)
        \/ pytest_sessionfinish(p, MaxXdistStream)
        \/ pytest_unconfigure(p)

SpecXdist == Init /\ [][NextXdist]_vars

\* the host reports the call phase of a test once: no testCase event of the
\* report's test has been written by p
FirstReportOf(p, report) ==
    LET h == parse_test_hierarchy(report.nodeid)
    IN  \A i \in 1..Len(log[p]) :
          ~ /\ log[p][i].eventType = "testCase"
            /\ log[p][i].payload.testName = h.test_name
            /\ log[p][i].payload.parentNames = <<h.file_path>> \o h.suite_chain

\* One session of the coordinator whose tests have node ids of any shape.
NextNodeIds ==
    \E p \in Coordinators :
        \/ pytest_configure(p, MaxNodeIdStream)
        \/ \E report \in NodeIdReports :
               /\ FirstReportOf(p, report)
               /\ pytest_runtest_logreport(p, report, MaxNodeIdStream)
        \/ pytest_unconfigure(p)

SpecNodeIds == Init /\ [][NextNodeIds]_vars

\* the call-phase reports of tests without an expected-failure marker
CallReports == { r \in Reports : r.when = "call" /\ r.wasxfail = NoAttr }

\* One session of the coordinator during which writes to the IPC file may
\* fail and recover at any moment.
NextFaulty ==
    \/ sink_fails
    \/ sink_recovers
    \/ \E p \in Coordinators :
        \/ pytest_configure(p, MaxFaultyStream)
        \/ \E file_path \in ItemPaths : pytest_runtest_protocol(p, file_path, MaxFaultyStream)
        \/ \E report \in CallReports : pytest_runtest_logreport(p, report, MaxFaultyStream)
        \/ pytest_sessionfinish(p, MaxFaultyStream)
        \/ pytest_unconfigure(p)

SpecFaulty == Init /\ [][NextFaulty]_vars

\* a line left in the IPC file by an earlier writer
OldLine == Event("collectionFinish", [collected |-> 2])

\* the IPC file exists and has content when the session starts
InitExisting ==
    /\ stream = <<OldLine>>
    /\ sinkOk = TRUE
    /\ _is_worker = [p \in Procs |-> FALSE]
    /\ _reporter = [p \in Procs |-> None]
    /\ phase = [p \in Procs |-> "init"]
    /\ log = [p \in Procs |-> <<>>]
    /\ logged_errors = [p \in Procs |-> 0]

\* One session of the coordinator appending to an existing file.
NextExisting ==
    \E p \in Coordinators :
        \/ pytest_configure(p, MaxExistingStream)
        \/ \E report \in CollectReports : pytest_collectreport(p, report, MaxExistingStream)
        \/ \E file_path \in ItemPaths : pytest_runtest_protocol(p, file_path, MaxExistingStream)
        \/ \E report \in CallReports : pytest_runtest_logreport(p, report, MaxExistingStream)
        \/ pytest_sessionfinish(p, MaxExistingStream)
        \/ pytest_unconfigure(p)

SpecExisting == InitExisting /\ [][NextExisting]_vars

\* The session of one file with the two tests TestMath::test_add and
\* TestMath::test_sub.
MathFile == <<"test_math.py">>
TestAdd == MathFile \o Sep \o <<"TestMath">> \o Sep \o <<"test_add">>
TestSub == MathFile \o Sep \o <<"TestMath">> \o Sep \o <<"test_sub">>

\* the reports of the two tests: setup and teardown pass, the call phase has
\* any outcome
MathReports ==
    { r \in [when : Whens, outcome : Outcomes, wasxfail : XfailMarks,
             nodeid : {TestAdd, TestSub}, longrepr : {NoRepr, FailRepr, SkipRepr},
             duration : Durations] :
        /\ r.longrepr = LongReprOf(r.outcome)
        /\ r.outcome = "failed" => r.wasxfail = NoAttr
        /\ r.when # "call" => (r.outcome = "passed" /\ r.wasxfail = NoAttr) }

\* pytest delivers the reports of a test during the session, after the test's
\* pytest_runtest_protocol call
ReportInSession(p, report) ==
    /\ phase[p] = "configured"
    /\ Active(p)
    /\ parse_test_hierarchy(report.nodeid).file_path \in _reporter[p][1].test_files
    /\ FirstReportOf(p, report)

NextScenario ==
    \E p \in Coordinators :
        \/ pytest_configure(p, MaxScenarioStream)
        \/ pytest_runtest_protocol(p, MathFile, MaxScenarioStream)
        \/ \E report \in MathReports :
               /\ ReportInSession(p, report)
               /\ pytest_runtest_logreport(p, report, MaxScenarioStream)
        \/ /\ phase[p] = "configured"
           /\ pytest_sessionfinish(p, MaxScenarioStream)
        \/ pytest_unconfigure(p)

SpecScenario == Init /\ [][NextScenario]_vars

\* A coordinator session whose collection may fail: every hook, with room in
\* the stream for a collection error and one test after it.
NextCollect ==
    \E p \in Coordinators :
        \/ pytest_configure(p, MaxCollectStream)
        \/ \E report \in CollectReports : pytest_collectreport(p, report, MaxCollectStream)
        \/ \E collected \in CollectedCounts :
               pytest_collection_finish(p, collected, MaxCollectStream)
        \/ \E file_path \in ItemPaths : pytest_runtest_protocol(p, file_path, MaxCollectStream)
        \/ \E report \in Reports : pytest_runtest_logreport(p, report, MaxCollectStream)
        \/ pytest_sessionfinish(p, MaxCollectStream)
        \/ pytest_unconfigure(p)

SpecCollect == Init /\ [][NextCollect]_vars

----------------------------------------------------------------------------
(* Reading the stream. *)

IsCase(e) == e.eventType = "testCase"

\* the testCase events of seq that belong to the test with hierarchy h
CasesOf(seq, h) ==
    { i \in 1..Len(seq) :
        /\ IsCase(seq[i])
        /\ seq[i].payload.testName = h.test_name
        /\ seq[i].payload.parentNames = <<h.file_path>> \o h.suite_chain }

\* the SKIP testCase events of seq that belong to the test with hierarchy h
SkipsOf(seq, h) == { i \in CasesOf(seq, h) : seq[i].payload.status = "SKIP" }

\* the group events of the given type in seq for the group name under parents
GroupEvents(seq, type, name, parents) ==
    { i \in 1..Len(seq) :
        /\ seq[i].eventType = type
        /\ seq[i].payload.groupName = name
        /\ seq[i].payload.parentNames = parents }

\* the testCase events of file_path with the given status among the first n lines
CasesWith(seq, n, file_path, status) ==
    { i \in 1..n :
        /\ IsCase(seq[i])
        /\ seq[i].payload.parentNames[1] = file_path
        /\ seq[i].payload.status = status }

CasesIn(seq, n, file_path) ==
    { i \in 1..n : IsCase(seq[i]) /\ seq[i].payload.parentNames[1] = file_path }

Last(seq) == seq[Len(seq)]

FailedCount(rep, file_path) == Get(ResultsOf(rep, file_path), "failed")
SkippedCount(rep, file_path) == Get(ResultsOf(rep, file_path), "skipped")

HasMarker(p) == environ_PYTEST_XDIST_WORKER(p) # Unset

----------------------------------------------------------------------------
(* C1 *)

\* C1: whenever a testCase event is in the stream, every non-empty prefix of
\* its parentNames chain has a testGroupDiscovered event and a testGroupStart
\* event earlier in the stream.
C1_AncestorsBeforeCase ==
    \A i \in 1..Len(stream) :
        IsCase(stream[i]) =>
            LET pn == stream[i].payload.parentNames
            IN  \A k \in 1..Len(pn) :
                  /\ \E j \in GroupEvents(stream, "testGroupDiscovered", pn[k],
                                          SubSeq(pn, 1, k - 1)) : j < i
                  /\ \E j \in GroupEvents(stream, "testGroupStart", pn[k],
                                          SubSeq(pn, 1, k - 1)) : j < i

\* a testCase event of a test inside a suite has been written
C1_Witness ==
    \E i \in 1..Len(stream) :
        IsCase(stream[i]) /\ Len(stream[i].payload.parentNames) >= 2

----------------------------------------------------------------------------
(* C2 *)

\* each group identity has at most one event of each kind in the stream
C2_AtMostOnce ==
    \A type \in {"testGroupDiscovered", "testGroupStart"} :
        \A i, j \in 1..Len(stream) :
            /\ stream[i].eventType = type
            /\ stream[j].eventType = type
            /\ stream[i].payload = stream[j].payload
            => i = j

\* a second call with the same arguments emits nothing and changes nothing
C2_RepeatIsNoOp ==
    \A p \in Procs : Active(p) =>
        \A n \in NodeIds :
            LET h == parse_test_hierarchy(n)
                d1 == ensure_groups_discovered(Cur(p), h.file_path, h.suite_chain)
                d2 == ensure_groups_discovered(Ctx(d1.rep, sinkOk), h.file_path,
                                               h.suite_chain)
            IN  /\ d2.out = <<>> /\ d2.rep = d1.rep
                /\ \A k \in 0..Len(h.suite_chain) :
                     LET hier == <<h.file_path>> \o SubSeq(h.suite_chain, 1, k)
                         s1 == ensure_group_started(Cur(p), hier)
                         s2 == ensure_group_started(Ctx(s1.rep, sinkOk), hier)
                     IN  s2.out = <<>> /\ s2.rep = s1.rep

\* within one reporter lifetime the two sets only grow
C2_SetsGrow ==
    \A p \in Procs :
        (_reporter[p] # None /\ _reporter'[p] # None) =>
            /\ _reporter[p][1].discovered_groups \subseteq _reporter'[p][1].discovered_groups
            /\ _reporter[p][1].group_starts \subseteq _reporter'[p][1].group_starts

\* C2: discovery and start are idempotent and monotonic: at most one
\* testGroupDiscovered and one testGroupStart event per group identity, a
\* repeated call with identical arguments emits nothing, and discovered_groups
\* and group_starts never lose an element.
C2_IdempotentMonotonic ==
    [](C2_AtMostOnce /\ C2_RepeatIsNoOp) /\ [][C2_SetsGrow]_vars

\* two tests of the same file have been reported: the second report repeated
\* the discovery and start calls of the first
C2_Witness ==
    \E i, j \in 1..Len(stream) :
        /\ i < j
        /\ IsCase(stream[i]) /\ IsCase(stream[j])
        /\ stream[i].payload.parentNames = stream[j].payload.parentNames

----------------------------------------------------------------------------
(* C3 *)

\* what the claim promises for a failed report r handled in the current state
C3_Surfaced(p, r) ==
    LET h == parse_test_hierarchy(r.nodeid)
        c == LogReport(Cur(p), r)
    IN  /\ c.out # <<>>
        /\ IsCase(Last(c.out))
        /\ Last(c.out).payload.status = "FAIL"
        /\ Last(c.out).payload.testName = h.test_name
        /\ Last(c.out).payload.parentNames = <<h.file_path>> \o h.suite_chain
        /\ Truthy(r.longrepr) =>
             /\ "error" \in DOMAIN Last(c.out).payload
             /\ Last(c.out).payload.error = r.longrepr.text
        /\ FailedCount(c.rep, h.file_path)
             = FailedCount(_reporter[p][1], h.file_path) + 1

\* C3 as stated: a failed report of any phase yields a FAIL testCase event
\* with the error text and increments the failed counter.
C3_Original ==
    \A p \in Procs : (Active(p) /\ sinkOk) =>
        \A r \in Reports : failed(r) => C3_Surfaced(p, r)

\* C3 as amended: a failed report of the call phase without an
\* expected-failure marker yields a FAIL testCase event with the error text
\* and increments the failed counter.
C3_FailedCallSurfaced ==
    \A p \in Procs : (Active(p) /\ sinkOk) =>
        \A r \in Reports :
            (failed(r) /\ r.when = "call" /\ ~has_xfail(r)) => C3_Surfaced(p, r)

\* a FAIL testCase event with its error text is in the stream and counted
C3_Witness ==
    \E p \in Procs :
        /\ Active(p)
        /\ \E i \in 1..Len(stream) :
             /\ IsCase(stream[i])
             /\ stream[i].payload.status = "FAIL"
             /\ "error" \in DOMAIN stream[i].payload
             /\ FailedCount(_reporter[p][1], stream[i].payload.parentNames[1]) >= 1

----------------------------------------------------------------------------
(* C4 *)

\* C4: a test whose setup reports a plain skip gets exactly one SKIP testCase
\* event and one increment of the skipped counter, also when a later setup or
\* call report of the same test reports skipped again.
C4_ExactlyOneSkip ==
    \A p \in Procs : (Active(p) /\ sinkOk) =>
        \A r \in Reports :
            (r.when = "setup" /\ IsPlainSkip(r)) =>
                LET h == parse_test_hierarchy(r.nodeid)
                    before == SkippedCount(_reporter[p][1], h.file_path)
                    c1 == LogReport(Cur(p), r)
                    seen == SkipsOf(stream, h) # {}
                IN  /\ Cardinality(SkipsOf(stream \o c1.out, h)) = 1
                    /\ SkippedCount(c1.rep, h.file_path)
                         = IF seen THEN before ELSE before + 1
                    /\ \A r2 \in Reports :
                         (r2.nodeid = r.nodeid /\ IsPlainSkip(r2)) =>
                             LET c2 == LogReport(Ctx(c1.rep, sinkOk), r2)
                             IN  /\ c2.out = <<>>
                                 /\ SkippedCount(c2.rep, h.file_path)
                                      = SkippedCount(c1.rep, h.file_path)

----------------------------------------------------------------------------
(* C5 *)

\* C5: when the same call-phase report is delivered twice, the test still has
\* at most one testCase event and the counters count it once.
C5_CallReportedOnce ==
    \A p \in Procs : (Active(p) /\ sinkOk) =>
        \A r \in Reports :
            r.when = "call" =>
                LET h == parse_test_hierarchy(r.nodeid)
                    c1 == LogReport(Cur(p), r)
                    c2 == LogReport(Ctx(c1.rep, sinkOk), r)
                IN  /\ Cardinality(CasesOf(stream \o c1.out \o c2.out, h)) <= 1
                    /\ c2.rep.test_results = c1.rep.test_results

----------------------------------------------------------------------------
(* C6 *)

\* C6: a process configured with the worker marker present has no reporter,
\* has written no event, and stays so whatever hooks it is sent.
C6_WorkerSilent ==
    \A p \in Procs :
        (HasMarker(p) /\ phase[p] # "init") =>
            /\ _is_worker[p]
            /\ _reporter[p] = None
            /\ log[p] = <<>>

\* a worker has been configured and sent its session finish while the
\* coordinator was writing events
C6_Witness ==
    \E p \in Procs :
        /\ HasMarker(p)
        /\ phase[p] = "finished"
        /\ Len(stream) >= 2

----------------------------------------------------------------------------
(* C7 *)

\* C7: with workers running their hooks in any interleaving, the stream is
\* exactly the sequence of events the coordinator appended.
C7_OnlyCoordinatorWrites ==
    \A p \in Procs : IsCoordinator(p) => stream = log[p]

\* the coordinator has written a test's events while a worker was configured
C7_Witness ==
    /\ \E p \in Procs : HasMarker(p) /\ phase[p] \in {"configured", "finished"}
    /\ \E i \in 1..Len(stream) : stream[i].eventType = "testGroupStart"

----------------------------------------------------------------------------
(* C8 *)

\* C8: once the session-finish hook has run, no later hook appends an event.
C8_FinalAfterFinish ==
    [][\A p \in Procs : phase[p] = "finished" => log'[p] = log[p]]_vars

----------------------------------------------------------------------------
(* C9 *)

\* C9: the session-finish hook of an active reporter emits exactly one
\* testGroupResult for every file group that has a testGroupDiscovered event.
C9_ResultPerDiscoveredFile ==
    [][\A p \in Procs :
         (Active(p) /\ phase[p] = "configured" /\ phase'[p] = "finished") =>
             LET new == SubSeq(log'[p], Len(log[p]) + 1, Len(log'[p]))
             IN  \A i \in 1..Len(log[p]) :
                   (/\ log[p][i].eventType = "testGroupDiscovered"
                    /\ log[p][i].payload.parentNames = <<>>) =>
                       Cardinality(GroupEvents(new, "testGroupResult",
                                               log[p][i].payload.groupName, <<>>)) = 1
    ]_vars

----------------------------------------------------------------------------
(* C10 *)

\* C10: every testGroupResult carries totals equal to the numbers of testCase
\* events written for its file, per status and in total.
C10_TotalsMatchCases ==
    \A i \in 1..Len(stream) :
        stream[i].eventType = "testGroupResult" =>
            LET f == stream[i].payload.groupName
                t == stream[i].payload.totals
            IN  /\ t.passed = Cardinality(CasesWith(stream, i, f, "PASS"))
                /\ t.failed = Cardinality(CasesWith(stream, i, f, "FAIL"))
                /\ t.skipped = Cardinality(CasesWith(stream, i, f, "SKIP"))
                /\ t.xfailed = Cardinality(CasesWith(stream, i, f, "XFAIL"))
                /\ t.xpassed = Cardinality(CasesWith(stream, i, f, "XPASS"))
                /\ t.total = Cardinality(CasesIn(stream, i, f))

----------------------------------------------------------------------------
(* C11 *)

\* the priority rule of the specification on three counters
PriorityStatus(n_failed, n_passed, n_skipped) ==
    IF n_failed > 0 THEN "FAIL"
    ELSE IF n_passed > 0 THEN "PASS"
    ELSE IF n_skipped > 0 THEN "SKIP"
    ELSE "UNKNOWN"

\* C11: every testGroupResult has the status the priority rule gives to the
\* counters it reports (failed first, then passed, then skipped, else
\* UNKNOWN), and the session-finish hook computes it from the file's counters.
C11_StatusByPriority ==
    /\ \A i \in 1..Len(stream) :
         stream[i].eventType = "testGroupResult" =>
             LET t == stream[i].payload.totals
             IN  stream[i].payload.status
                   = PriorityStatus(t.failed, t.passed, t.skipped)
    /\ \A p \in Procs : (Active(p) /\ sinkOk) =>
         \A order \in Orders(_reporter[p][1].test_files) :
             LET c == SessionFinish(Cur(p), order)
             IN  \A i \in 1..Len(c.out) :
                   LET results == ResultsOf(_reporter[p][1], c.out[i].payload.groupName)
                   IN  c.out[i].payload.status
                         = PriorityStatus(Get(results, "failed"),
                                          Get(results, "passed"),
                                          Get(results, "skipped"))

\* a file with a passed and a failed test has been given the status FAIL
C11_Witness ==
    \E i \in 1..Len(stream) :
        /\ stream[i].eventType = "testGroupResult"
        /\ stream[i].payload.totals.failed > 0
        /\ stream[i].payload.totals.passed > 0
        /\ stream[i].payload.status = "FAIL"

----------------------------------------------------------------------------
(* C12 *)

\* results with the two expected-failure counters replaced
WithX(results, x, y) == ("xfailed" :> x) @@ ("xpassed" :> y) @@ results

----------------------------------------------------------------------------
(* C13 *)

\* the lines of seq that are testCase events
CaseLines(seq) == { i \in 1..Len(seq) : IsCase(seq[i]) }

\* C13: a call-phase report with an expected-failure marker that did not
\* pass yields exactly one testCase event, with status XFAIL, without an
\* error field and with an xfailReason field, and increments the xfailed
\* counter and no other.
C13_ExpectedFailure ==
    \A p \in Procs : (Active(p) /\ sinkOk) =>
        \A r \in Reports :
            (r.when = "call" /\ r.wasxfail # NoAttr /\ r.outcome # "passed") =>
                LET h == parse_test_hierarchy(r.nodeid)
                    c == LogReport(Cur(p), r)
                    old == ResultsOf(_reporter[p][1], h.file_path)
                    new == ResultsOf(c.rep, h.file_path)
                IN  /\ Cardinality(CaseLines(c.out)) = 1
                    /\ IsCase(Last(c.out))
                    /\ Last(c.out).payload.status = "XFAIL"
                    /\ Last(c.out).payload.testName = h.test_name
                    /\ "error" \notin DOMAIN Last(c.out).payload
                    /\ "xfailReason" \in DOMAIN Last(c.out).payload
                    /\ Last(c.out).payload.xfailReason = r.wasxfail
                    /\ Get(new, "xfailed") = Get(old, "xfailed") + 1
                    /\ \A k \in {"passed", "failed", "skipped", "xpassed"} :
                         Get(new, k) = Get(old, k)

\* an XFAIL testCase event is in the stream and counted
C13_Witness ==
    \E p \in Procs :
        /\ Active(p)
        /\ \E i \in 1..Len(stream) :
             /\ IsCase(stream[i])
             /\ stream[i].payload.status = "XFAIL"
             /\ Get(ResultsOf(_reporter[p][1], stream[i].payload.parentNames[1]),
                    "xfailed") >= 1

----------------------------------------------------------------------------
(* C14 *)

\* C14: a testCase event in the stream has an error field if and only if its
\* status is FAIL.
C14_ErrorIffFail ==
    \A i \in 1..Len(stream) :
        IsCase(stream[i]) =>
            ("error" \in DOMAIN stream[i].payload
               <=> stream[i].payload.status = "FAIL")

\* the stream holds a FAIL testCase event and a testCase event of another status
C14_Witness ==
    \E i, j \in 1..Len(stream) :
        /\ IsCase(stream[i]) /\ stream[i].payload.status = "FAIL"
        /\ IsCase(stream[j]) /\ stream[j].payload.status \in {"PASS", "XFAIL", "SKIP"}

----------------------------------------------------------------------------
(* C15 *)

\* C15: a testCase event in the stream has a skipReason field if and only if
\* its status is SKIP.
C15_SkipReasonIffSkip ==
    \A i \in 1..Len(stream) :
        IsCase(stream[i]) =>
            ("skipReason" \in DOMAIN stream[i].payload
               <=> stream[i].payload.status = "SKIP")

\* the stream holds a SKIP testCase event and a testCase event of another status
C15_Witness ==
    \E i, j \in 1..Len(stream) :
        /\ IsCase(stream[i]) /\ stream[i].payload.status = "SKIP"
        /\ IsCase(stream[j]) /\ stream[j].payload.status \in {"PASS", "FAIL", "XFAIL", "XPASS"}

----------------------------------------------------------------------------
(* C16 *)

\* C16: every testCase event in the stream, whatever its status, has the
\* fields testName, parentNames, status and duration.
C16_RequiredFields ==
    \A i \in 1..Len(stream) :
        IsCase(stream[i]) =>
            {"testName", "parentNames", "status", "duration"}
                \subseteq DOMAIN stream[i].payload

----------------------------------------------------------------------------
(* C17 *)

\* what the claim says parse_test_hierarchy returns for N >= 2 segments
SegmentsParsed(segs) ==
    LET n == Len(segs)
        h == parse_test_hierarchy(MakeId(segs))
    IN  /\ h.file_path = segs[1]
        /\ h.test_name = segs[n]
        /\ Len(h.suite_chain) = n - 2
        /\ h.suite_chain = SubSeq(segs, 2, n - 1)
        /\ n = 3 => h.suite_chain = <<segs[2]>>

\* C17: for an identifier of N >= 2 segments parse_test_hierarchy returns
\* the first segment as file path, the last as test name and the N - 2
\* segments between them, in order, as suite chain (none for N = 2, the
\* middle one for N = 3); the report callback writes exactly these into the
\* testCase event of the test.
C17_ParseBySegments ==
    /\ \A segs \in IdSegments : Len(segs) >= 2 => SegmentsParsed(segs)
    /\ \A p \in Procs : (Active(p) /\ sinkOk) =>
         \A segs \in IdSegments :
             Len(segs) >= 2 =>
                 \A r \in NodeIdReports :
                     r.nodeid = MakeId(segs) =>
                         LET c == LogReport(Cur(p), r)
                         IN  /\ c.out # <<>>
                             /\ IsCase(Last(c.out))
                             /\ Last(c.out).payload.testName = segs[Len(segs)]
                             /\ Last(c.out).payload.parentNames
                                  = SubSeq(segs, 1, Len(segs) - 1)

\* testCase events of a bare function and of a test nested three or more
\* scopes deep have been written
C17_Witness ==
    /\ \E i \in 1..Len(stream) :
         IsCase(stream[i]) /\ Len(stream[i].payload.parentNames) >= 3
    /\ \E i \in 1..Len(stream) :
         IsCase(stream[i]) /\ Len(stream[i].payload.parentNames) = 1

----------------------------------------------------------------------------
(* C18 *)

\* C18: for an identifier with fewer than two segments parse_test_hierarchy
\* returns the whole identifier as test name with an empty suite chain, and
\* the report callback handles the report as it handles any other: it counts
\* the test and writes its testCase event under the discovered and started
\* file group.
C18_ShortIdentifier ==
    /\ \A segs \in IdSegments :
         Len(segs) < 2 =>
             LET h == parse_test_hierarchy(MakeId(segs))
             IN  h.test_name = MakeId(segs) /\ h.suite_chain = <<>>
    /\ \A p \in Procs : (Active(p) /\ sinkOk) =>
         \A r \in NodeIdReports :
             (\E segs \in IdSegments : Len(segs) < 2 /\ r.nodeid = MakeId(segs)) =>
                 LET h == parse_test_hierarchy(r.nodeid)
                     c == LogReport(Cur(p), r)
                     all == log[p] \o c.out
                 IN  /\ c.out # <<>>
                     /\ IsCase(Last(c.out))
                     /\ Last(c.out).payload.testName = r.nodeid
                     /\ Last(c.out).payload.status = "PASS"
                     /\ Len(Last(c.out).payload.parentNames) = 1
                     /\ Get(ResultsOf(c.rep, h.file_path), "passed")
                          = Get(ResultsOf(_reporter[p][1], h.file_path), "passed") + 1
                     /\ GroupEvents(all, "testGroupDiscovered",
                                    Last(c.out).payload.parentNames[1], <<>>) # {}
                     /\ GroupEvents(all, "testGroupStart",
                                    Last(c.out).payload.parentNames[1], <<>>) # {}

\* the testCase event of a one-segment identifier has been written
C18_Witness ==
    \E i \in 1..Len(stream) :
        /\ IsCase(stream[i])
        /\ stream[i].payload.testName = <<"f">>
        /\ stream[i].payload.parentNames = << <<"f">> >>

----------------------------------------------------------------------------
(* C19 *)

\* C19: a group whose chain has no testGroupDiscovered (testGroupStart) event
\* yet gets one when a test below it is reported, whatever other groups
\* have been discovered (started) before.
C19_NoSuppression ==
    \A p \in Procs : (Active(p) /\ sinkOk) =>
        \A r \in NodeIdReports :
            LET h == parse_test_hierarchy(r.nodeid)
                c == LogReport(Cur(p), r)
                chain == <<h.file_path>> \o h.suite_chain
            IN  \A k \in 1..Len(chain) :
                  \A type \in {"testGroupDiscovered", "testGroupStart"} :
                      GroupEvents(log[p], type, chain[k], SubSeq(chain, 1, k - 1)) = {}
                        => GroupEvents(c.out, type, chain[k], SubSeq(chain, 1, k - 1)) # {}

----------------------------------------------------------------------------
(* C20 *)

\* a callback whose writes fail returns as it does when they succeed: it
\* leaves the reporter in the same state, appends nothing and hands one error
\* line to the diagnostic log per lost event; with the sink up again a
\* call-phase report writes its testCase event
C20_CallbackReturns ==
    \A p \in Procs : Active(p) =>
        /\ \A r \in Reports :
             LET down == LogReport(Ctx(_reporter[p][1], FALSE), r)
                 up == LogReport(Ctx(_reporter[p][1], TRUE), r)
             IN  /\ down.out = <<>>
                 /\ down.rep = up.rep
                 /\ down.err = Len(up.out)
                 /\ up.err = 0
                 /\ (r.when = "call" /\ r.outcome # "skipped")
                      => (up.out # <<>> /\ IsCase(Last(up.out)))
        /\ \A f \in ItemPaths :
             LET down == RunTestProtocol(Ctx(_reporter[p][1], FALSE), f)
                 up == RunTestProtocol(Ctx(_reporter[p][1], TRUE), f)
             IN  /\ down.out = <<>>
                 /\ down.rep = up.rep
                 /\ down.err = Len(up.out)

\* a step taken while the sink is down appends nothing, and a step taken
\* while it is up logs no error
C20_OnlyLogged ==
    /\ (~sinkOk /\ ~sinkOk') => stream' = stream
    /\ (sinkOk /\ sinkOk') => logged_errors' = logged_errors
    /\ \A p \in Procs : logged_errors'[p] >= logged_errors[p]

\* C20: a failing write in send_event does not reach the host: the callback
\* runs to its end as if the write had succeeded, the failure shows only as
\* an error line of the diagnostic log, and callbacks delivered after the
\* sink has recovered write their events.
C20_WriteFailureContained ==
    []C20_CallbackReturns /\ [][C20_OnlyLogged]_vars

\* events were lost while the sink was down (the file group's discovery among
\* them), and after the recovery a testCase event has been written
C20_Witness ==
    \E p \in Procs :
        /\ Active(p)
        /\ sinkOk
        /\ logged_errors[p] >= 1
        /\ stream # <<>>
        /\ IsCase(Last(stream))
        /\ GroupEvents(stream, "testGroupDiscovered",
                       Last(stream).payload.parentNames[1], <<>>) = {}

----------------------------------------------------------------------------
(* C21 *)

\* a step leaves every line of the file in place and only adds lines after them
C21_Appends ==
    /\ Len(stream') >= Len(stream)
    /\ SubSeq(stream', 1, Len(stream)) = stream

\* the file is the content it had before the session followed by the events
\* of the writing process in the order its callbacks produced them
C21_InCallbackOrder ==
    \A p \in Procs : IsCoordinator(p) => stream = <<OldLine>> \o log[p]

\* C21: the IPC stream is append-only: every step keeps the earlier content
\* of the file, the content from before the session included, unchanged and
\* in place, and the events follow it in the order in which the callbacks
\* that produced them were invoked.
C21_AppendOnly ==
    []C21_InCallbackOrder /\ [][C21_Appends]_vars

\* two or more events have been appended behind the earlier content
C21_Witness ==
    /\ Len(stream) >= 3
    /\ stream[1] = OldLine
    /\ IsCase(stream[Len(stream)])

----------------------------------------------------------------------------
(* C23 *)

\* C23: after configuration a process has an active reporter if and only if
\* it does not carry the worker marker (the IPC path is always set in this
\* adapter); an active process has written exactly one collectionStart event,
\* and it is the first event the process wrote.
C23_ActivationEmitsStart ==
    \A p \in Procs :
        /\ phase[p] = "init" => ~Active(p)
        /\ phase[p] \in {"configured", "finished"} => (Active(p) <=> ~HasMarker(p))
        /\ Active(p) => log[p] # <<>>
        /\ log[p] # <<>> =>
             /\ log[p][1].eventType = "collectionStart"
             /\ Cardinality({ i \in 1..Len(log[p]) :
                                log[p][i].eventType = "collectionStart" }) = 1

\* the coordinator is active and has written events behind its
\* collectionStart, and a process with the worker marker has been configured
C23_Witness ==
    /\ \E p \in Procs : Active(p) /\ Len(log[p]) >= 2
    /\ \E p \in Procs : HasMarker(p) /\ phase[p] = "configured"

----------------------------------------------------------------------------
(* C24 *)

\* process p has not been activated, or its reporter has been cleared
Idle(p) == phase[p] \in {"init", "unconfigured"} \/ HasMarker(p)

\* C24: a callback other than the configuration hook that reaches a process
\* which was never activated, or whose reporter unconfigure has cleared,
\* writes no event, logs no error and changes nothing of that process.
C24_IdleNoOp ==
    [][\A p \in Procs :
         (Idle(p) /\ ~(phase[p] = "init" /\ phase'[p] = "configured")) =>
             /\ log'[p] = log[p]
             /\ _reporter'[p] = _reporter[p]
             /\ _is_worker'[p] = _is_worker[p]
             /\ logged_errors'[p] = logged_errors[p]
             /\ (\A q \in Procs : log'[q] = log[q]) => stream' = stream
    ]_vars

\* the coordinator has been unconfigured after writing events, and a worker
\* has received its hooks
C24_Witness ==
    /\ \E p \in Procs : phase[p] = "unconfigured" /\ Len(log[p]) >= 2
    /\ \E p \in Procs : HasMarker(p) /\ phase[p] = "finished"

----------------------------------------------------------------------------
(* C25 *)

EventTypes ==
    {"collectionStart", "collectionError", "collectionFinish",
     "testGroupDiscovered", "testGroupStart", "testCase", "testGroupResult"}

CaseStatuses == {"PASS", "FAIL", "SKIP", "XFAIL", "XPASS"}

\* C25: every event in the stream has one of the seven event types, and
\* every testCase event one of the five statuses.
C25_KnownTypesAndStatuses ==
    \A i \in 1..Len(stream) :
        /\ stream[i].eventType \in EventTypes
        /\ IsCase(stream[i]) => stream[i].payload.status \in CaseStatuses

\* the stream holds events of five or more types
C25_Witness ==
    Cardinality({ stream[i].eventType : i \in 1..Len(stream) }) >= 5

----------------------------------------------------------------------------
(* C26 *)

\* the lines of seq that are the testCase event of test_name with the status
MathCase(seq, test_name, status) ==
    { i \in 1..Len(seq) :
        /\ IsCase(seq[i])
        /\ seq[i].payload.testName = test_name
        /\ seq[i].payload.parentNames = << <<"test_math.py">>, <<"TestMath">> >>
        /\ seq[i].payload.status = status }

\* the session is over; test_add passed and then test_sub failed
ScenarioRan ==
    /\ phase[0] = "finished"
    /\ \E i \in MathCase(stream, <<"test_add">>, "PASS") :
         \E j \in MathCase(stream, <<"test_sub">>, "FAIL") : i < j

\* the stream of the scenario as the code writes it
ScenarioStream ==
    << [eventType |-> "collectionStart", payload |-> [phase |-> "collection"]],
       [eventType |-> "testGroupDiscovered",
        payload |-> [groupName |-> <<"test_math.py">>, parentNames |-> <<>>]],
       [eventType |-> "testGroupStart",
        payload |-> [groupName |-> <<"test_math.py">>, parentNames |-> <<>>]],
       [eventType |-> "testGroupDiscovered",
        payload |-> [groupName |-> <<"TestMath">>, parentNames |-> << <<"test_math.py">> >>]],
       [eventType |-> "testGroupStart",
        payload |-> [groupName |-> <<"TestMath">>, parentNames |-> << <<"test_math.py">> >>]],
       [eventType |-> "testCase",
        payload |-> [testName |-> <<"test_add">>,
                     parentNames |-> << <<"test_math.py">>, <<"TestMath">> >>,
                     status |-> "PASS", duration |-> 2000]],
       [eventType |-> "testCase",
        payload |-> [testName |-> <<"test_sub">>,
                     parentNames |-> << <<"test_math.py">>, <<"TestMath">> >>,
                     status |-> "FAIL", duration |-> 2000,
                     error |-> <<"assert 1 == 2">>]],
       [eventType |-> "testGroupResult",
        payload |-> [groupName |-> <<"test_math.py">>, parentNames |-> <<>>,
                     status |-> "FAIL", duration |-> "elapsed",
                     totals |-> [total |-> 2, passed |-> 1, failed |-> 1,
                                 skipped |-> 0, xfailed |-> 0, xpassed |-> 0]]] >>

\* C26 as stated: both discovery events precede both start events, which
\* precede the two testCase events and the file's result.
C26_Original ==
    ScenarioRan =>
        \E d1 \in GroupEvents(stream, "testGroupDiscovered", <<"test_math.py">>, <<>>) :
        \E d2 \in GroupEvents(stream, "testGroupDiscovered", <<"TestMath">>, << <<"test_math.py">> >>) :
        \E s1 \in GroupEvents(stream, "testGroupStart", <<"test_math.py">>, <<>>) :
        \E s2 \in GroupEvents(stream, "testGroupStart", <<"TestMath">>, << <<"test_math.py">> >>) :
        \E a \in MathCase(stream, <<"test_add">>, "PASS") :
        \E b \in MathCase(stream, <<"test_sub">>, "FAIL") :
        \E r \in GroupEvents(stream, "testGroupResult", <<"test_math.py">>, <<>>) :
            /\ d1 < d2 /\ d2 < s1 /\ s1 < s2 /\ s2 < a /\ a < b /\ b < r
            /\ "error" \in DOMAIN stream[b].payload
            /\ stream[r].payload.status = "FAIL"
            /\ stream[r].payload.totals.total = 2
            /\ stream[r].payload.totals.passed = 1
            /\ stream[r].payload.totals.failed = 1

\* C26 as amended: the file is discovered and started by the test-start
\* callback, then TestMath is discovered and started by the first report,
\* then come testCase{test_add, PASS}, testCase{test_sub, FAIL, error} and
\* the file's testGroupResult with status FAIL and totals 2 / 1 passed /
\* 1 failed.
C26_ScenarioStream ==
    ScenarioRan => stream = ScenarioStream

\* the scenario has been driven to its end
C26_Witness ==
    ScenarioRan /\ Len(stream) = 8

----------------------------------------------------------------------------
(* C27 *)

\* every event of the given type for a group below the root has an earlier
\* event of that type for the group's parent
ParentFirst(seq, type) ==
    \A i \in 1..Len(seq) :
        (seq[i].eventType = type /\ seq[i].payload.parentNames # <<>>) =>
            LET pn == seq[i].payload.parentNames
            IN  \E j \in GroupEvents(seq, type, pn[Len(pn)], SubSeq(pn, 1, Len(pn) - 1)) :
                  j < i

\* C27: the testGroupDiscovered event of a group's parent precedes the
\* group's own, and the testGroupStart event of a group's parent precedes
\* the group's own.
C27_AncestorsFirst ==
    /\ ParentFirst(stream, "testGroupDiscovered")
    /\ ParentFirst(stream, "testGroupStart")

----------------------------------------------------------------------------
(* C28 *)

\* C28: a test that has no SKIP testCase event yet gets one when its setup
\* or call phase reports skipped without an expected-failure marker,
\* whatever other tests of the file have been skipped before.
C28_SkipPerTest ==
    \A p \in Procs : (Active(p) /\ sinkOk) =>
        \A r \in Reports :
            LET h == parse_test_hierarchy(r.nodeid)
            IN  (/\ r.outcome = "skipped"
                 /\ r.when \in {"setup", "call"}
                 /\ r.wasxfail = NoAttr
                 /\ SkipsOf(log[p], h) = {}) =>
                    SkipsOf(LogReport(Cur(p), r).out, h) # {}

----------------------------------------------------------------------------
(* C29 *)

\* C29: the started set of a reporter is a subset of its discovered set, and
\* every testGroupStart event in the stream has an earlier
\* testGroupDiscovered event with the same groupName and parentNames.
C29_StartedAreDiscovered ==
    /\ \A p \in Procs : Active(p) =>
         _reporter[p][1].group_starts \subseteq _reporter[p][1].discovered_groups
    /\ \A i \in 1..Len(stream) :
         stream[i].eventType = "testGroupStart" =>
             \E j \in GroupEvents(stream, "testGroupDiscovered",
                                  stream[i].payload.groupName,
                                  stream[i].payload.parentNames) : j < i

\* a file group started by the test-start callback and a suite started by a
\* report are in the stream
C29_Witness ==
    /\ \E p \in Procs : Active(p) /\ _reporter[p][1].file_groups # {}
    /\ \E i \in 1..Len(stream) :
         stream[i].eventType = "testGroupStart" /\ stream[i].payload.parentNames # <<>>

----------------------------------------------------------------------------
(* C30 *)

\* C30: a setup or teardown report that is not a plain skip of the setup
\* phase writes no event and leaves the discovered set, the started set, the
\* processed-skips set and the value of every per-file counter as they were.
C30_OnlyCallCounts ==
    \A p \in Procs : (Active(p) /\ sinkOk) =>
        \A r \in Reports :
            (/\ r.when \in {"setup", "teardown"}
             /\ ~(r.when = "setup" /\ r.outcome = "skipped" /\ r.wasxfail = NoAttr)) =>
                LET old == _reporter[p][1]
                    c == LogReport(Cur(p), r)
                IN  /\ c.out = <<>>
                    /\ c.rep.discovered_groups = old.discovered_groups
                    /\ c.rep.group_starts = old.group_starts
                    /\ c.rep.processed_skips = old.processed_skips
                    /\ \A f \in ItemPaths :
                         \A k \in {"passed", "failed", "skipped", "xfailed", "xpassed"} :
                             Get(ResultsOf(c.rep, f), k) = Get(ResultsOf(old, f), k)

\* a reporter that has counted a test and processed a skip is reached, so
\* the sets and counters the report must leave alone are not empty
C30_Witness ==
    \E p \in Procs :
        /\ Active(p)
        /\ _reporter[p][1].processed_skips # {}
        /\ _reporter[p][1].group_starts # {}
        /\ \E f \in DOMAIN _reporter[p][1].test_results :
             Get(_reporter[p][1].test_results[f], "passed") >= 1

----------------------------------------------------------------------------
(* C31 *)

CounterNames == {"passed", "failed", "skipped", "xfailed", "xpassed"}

\* C31: while a process keeps its reporter, no step lowers any of the five
\* counters of any file.
C31_CountersNeverDecrease ==
    [][\A p \in Procs :
         (_reporter[p] # None /\ _reporter'[p] # None) =>
             \A f \in ItemPaths :
                 \A k \in CounterNames :
                     Get(ResultsOf(_reporter'[p][1], f), k)
                       >= Get(ResultsOf(_reporter[p][1], f), k)
    ]_vars

----------------------------------------------------------------------------
(* C32 *)

\* the registry and aggregator state of two reporters is the same
SameState(r1, r2) ==
    /\ r1.discovered_groups = r2.discovered_groups
    /\ r1.group_starts = r2.group_starts
    /\ r1.processed_skips = r2.processed_skips
    /\ r1.test_results = r2.test_results

\* C32: whatever callback runs while the sink is down leaves the discovered
\* set, the started set, the processed-skips set and the counters exactly as
\* the same callback leaves them when its writes succeed.
C32_StateAsIfWritten ==
    \A p \in Procs : Active(p) =>
        LET rep == _reporter[p][1]
        IN  /\ \A r \in Reports :
                 SameState(LogReport(Ctx(rep, FALSE), r).rep,
                           LogReport(Ctx(rep, TRUE), r).rep)
            /\ \A f \in ItemPaths :
                 SameState(RunTestProtocol(Ctx(rep, FALSE), f).rep,
                           RunTestProtocol(Ctx(rep, TRUE), f).rep)
            /\ \A order \in Orders(rep.test_files) :
                 SameState(SessionFinish(Ctx(rep, FALSE), order).rep,
                           SessionFinish(Ctx(rep, TRUE), order).rep)
            /\ \A cr \in CollectReports :
                 SameState(CollectReport(Ctx(rep, FALSE), cr).rep,
                           CollectReport(Ctx(rep, TRUE), cr).rep)

\* a test has been counted and its groups registered while the sink was
\* down: none of its events is in the stream
C32_Witness ==
    \E p \in Procs :
        /\ Active(p)
        /\ logged_errors[p] >= 3
        /\ _reporter[p][1].group_starts # {}
        /\ \E f \in DOMAIN _reporter[p][1].test_results :
             \E k \in CounterNames : Get(_reporter[p][1].test_results[f], k) >= 1
        /\ \A i \in 1..Len(stream) : stream[i].eventType = "collectionStart"

----------------------------------------------------------------------------
(* C33 *)

\* a collect report handled in the current state writes one collectionError
\* event if it is failed and nothing otherwise, leaves the reporter as it
\* was, and the callbacks after it write what they write without it
C33_CollectReportOnly ==
    \A p \in Procs : (Active(p) /\ sinkOk) =>
        \A cr \in CollectReports :
            LET c == CollectReport(Cur(p), cr)
                after == Ctx(c.rep, sinkOk)
            IN  /\ cr.failed <=> c.out # <<>>
                /\ cr.failed =>
                     /\ Len(c.out) = 1
                     /\ c.out[1].eventType = "collectionError"
                     /\ c.out[1].payload.filePath = cr.nodeid
                /\ c.rep = _reporter[p][1]
                /\ \A r \in Reports : LogReport(after, r).out = LogReport(Cur(p), r).out
                /\ \A f \in ItemPaths :
                     RunTestProtocol(after, f).out = RunTestProtocol(Cur(p), f).out
                /\ \A order \in Orders(c.rep.test_files) :
                     SessionFinish(after, order).out = SessionFinish(Cur(p), order).out

\* a step that appends a collectionError event leaves the reporter unchanged
C33_ErrorStepKeepsState ==
    \A p \in Procs :
        (/\ Len(log'[p]) = Len(log[p]) + 1
         /\ log'[p][Len(log'[p])].eventType = "collectionError")
            => _reporter'[p] = _reporter[p]

\* C33: a collect report writes a collectionError event if and only if it is
\* failed, changes no state of the reporter, and the test-start, test-report
\* and session-finish callbacks after it write the events they would have
\* written without it.
C33_CollectionFailureReported ==
    []C33_CollectReportOnly /\ [][C33_ErrorStepKeepsState]_vars

\* a test has been reported after a collection
\* error
C33_Witness ==
    \E i, j \in 1..Len(stream) :
        /\ i < j
        /\ stream[i].eventType = "collectionError"
        /\ IsCase(stream[j])

====
